---- MODULE Spec2Model ----
(***************************************************************************)
(* One call of adc_mic_read (c_mpos/src/adc_mic.c) as a state machine.     *)
(*                                                                         *)
(* The driver, the heap allocator, the watchdog, the scheduler and the     *)
(* MicroPython object allocator are the environment: every call to them is *)
(* appended to `calls`, and every result they can hand back is a           *)
(* nondeterministic choice of the action that makes the call.              *)
(*                                                                         *)
(* size_t and mp_int_t are SIZE_BITS wide (32 on the target); the model    *)
(* keeps the modular arithmetic and scales the width down.                 *)
(***************************************************************************)
EXTENDS Integers, Sequences, FiniteSets, TLC

VARIABLES
    pc,             \* position in adc_mic_read
    n_chunks,       \* the value of const int N (line 109)
    chunk_samples,  \* size_t chunk_samples (line 24)
    channel_list,   \* the items of args[2] (line 30)
    adc_channel_num,\* int adc_channel_num (line 32)
    channels,       \* uint8_t channels[10] (line 46): index -> value, -1 = not written
    i,              \* loop index of the channel copy (line 47)
    adc_if,         \* "unset" | "NULL" | "handle"
    dev,            \* "unset" | "NULL" | "handle"
    open_ret,       \* esp_err_t open_ret (line 88)
    buf_size,       \* const size_t buf_size (line 98)
    audio_buffer,   \* "unset" | "NULL" | "ptr"
    mem,            \* the bytes audio_buffer points to
    written,        \* how many leading bytes of mem the last read wrote
    chunk,          \* loop counter (line 120)
    ret,            \* int ret of the last read (line 122)
    global_min,     \* line 112
    global_max,     \* line 113
    last_buf_obj,   \* mp_obj_t last_buf_obj (line 118)
    calls,          \* every allocator/driver/watchdog/scheduler call, in order
    raised,         \* the exception that ended the call, or NoError
    result          \* the object returned, or NoResult

vars == <<pc, n_chunks, chunk_samples, channel_list, adc_channel_num, channels, i, adc_if,
          dev, open_ret, buf_size, audio_buffer, mem, written, chunk, ret,
          global_min, global_max, last_buf_obj, calls, raised, result>>

----------------------------------------------------------------------------
(* Bounds of the model *)

\* width of size_t / mp_int_t in the model
SIZE_BITS == 5

RECURSIVE Pow2(_)
Pow2(n) == IF n = 0 THEN 1 ELSE 2 * Pow2(n - 1)

SIZE_MOD == Pow2(SIZE_BITS)

\* (size_t)x for an int x
ToSizeT(x) == x % SIZE_MOD

\* values of args[0] the caller passes: small ones, a negative one, and two
\* positive ones for which chunk_samples * 2 * adc_channel_num wraps
ChunkSamplesArgs == {-1, 0, 1, 2, (3 * SIZE_MOD) \div 16, SIZE_MOD \div 4 + 1}

\* values of args[3]: the most negative int, -1, and 0 .. 12
ChannelNumArgs == {-(SIZE_MOD \div 2)} \cup (-1 .. 12)

\* values of args[2]
ChannelLists ==
    { <<>>, <<300>>, <<0, 1>>, <<0, 1, 2, 3, 4, 5, 6, 7, 8, 259>> }

\* 16-bit samples the ADC can deliver
SampleValues == {-32768, 0, 32767}

\* what a byte of freshly allocated heap can hold
HeapBytes == {0, 165}

\* non-zero statuses esp_codec_dev_open can return
OpenErrors == {-1, 5}

\* negative statuses esp_codec_dev_read can return
ReadErrors == {-1}

\* largest repeat count of the loop when N is taken as a parameter
MaxN == 2

----------------------------------------------------------------------------
(* Program constants and values of the runtime *)

\* const int N = 1
N == 1

\* uint8_t channels[10]; if (adc_channel_num > 10)
MAX_CHANNELS == 10

\* sizeof(int16_t)
SIZEOF_INT16 == 2

ENOMEM == 12

ESP_OK == 0

NoError == [type |-> "none", arg |-> "none"]
NoResult == [kind |-> "unset"]
MP_OBJ_NULL == [kind |-> "MP_OBJ_NULL"]
mp_const_none == [kind |-> "None"]
Bytes(data) == [kind |-> "bytes", data |-> data]

----------------------------------------------------------------------------
(* Pure helpers, one per expression of the source *)

\* variant: the ceiling compared off by one
TooManyChannels_OffByOne(cn) == cn > MAX_CHANNELS + 1

\* if (adc_channel_num > 10)
TooManyChannels(cn) == cn > MAX_CHANNELS

\* variant: the comparison made on signed values
ListTooShort_Signed(len, cn) == len < cn

\* variant: a list one item short is let through
ListTooShort_OffByOne(len, cn) == len + 1 < ToSizeT(cn)

\* if (channel_list_len < adc_channel_num): size_t against int, so the int
\* is converted to size_t before the comparison
ListTooShort(len, cn) == len < ToSizeT(cn)

\* (uint8_t)mp_obj_get_int(channel_list_items[i])
Uint8(x) == x % 256

\* chunk_samples * sizeof(int16_t) * adc_channel_num, in size_t
BufSize(cs, cn) == (cs * SIZEOF_INT16 * ToSizeT(cn)) % SIZE_MOD

\* variant: only statuses below -1 count as a failure
ReadFailed_BelowMinusOne(r) == r < -1

\* if (ret < 0)
ReadFailed(r) == r < 0

\* if (chunk == N - 1)
IsLastChunk(c, n) == c = n - 1

\* the two bytes of a 16-bit sample in memory (little-endian, two's complement)
EncodeLE(s) == LET u == s % 65536 IN <<u % 256, u \div 256>>

\* the bytes of a sequence of samples
BytesOf(samples) ==
    [b \in 1 .. 2 * Len(samples) |-> EncodeLE(samples[(b + 1) \div 2])[((b - 1) % 2) + 1]]

\* int16_t s = audio_buffer[k], for an index k inside the buffer
Sample(m, k) ==
    LET u == m[2 * k + 1] + 256 * m[2 * k + 2]
    IN  IF u >= 32768 THEN u - 65536 ELSE u

\* number of int16_t entries the allocated bytes hold
NumSamples(m) == Len(m) \div SIZEOF_INT16

\* variant: the sample is assigned instead of compared
Track_Overwrites(s, mm) == <<s, s>>

\* one pass of: if (s < global_min) global_min = s; if (s > global_max) global_max = s;
Track(s, mm) ==
    <<IF s < mm[1] THEN s ELSE mm[1], IF s > mm[2] THEN s ELSE mm[2]>>

\* for (size_t i = 0; i < chunk_samples; i++) { ... } over the entries that lie
\* inside the buffer; k is the loop index, mm the pair <<global_min, global_max>>
RECURSIVE ScanFrom(_, _, _, _)
ScanFrom(m, n, k, mm) ==
    IF k < n /\ k < NumSamples(m)
    THEN ScanFrom(m, n, k + 1, Track(Sample(m, k), mm))
    ELSE mm

\* the scan reads past the end of the allocation
ScanOutOfBounds(m, n) == n > NumSamples(m)

\* variant: the data interface is not deleted when the device cannot be created
DevFailCleanup_Leaks == <<>>

\* variant: the device that was never created is deleted as well
DevFailCleanup_DeletesNullDev ==
    <<"esp_codec_dev_delete", "audio_codec_delete_data_if">>

\* the release calls made when esp_codec_dev_new returns NULL
DevFailCleanup == <<"audio_codec_delete_data_if">>

\* variant: the device that failed to open is closed as well
OpenFailCleanup_ClosesUnopened ==
    <<"esp_codec_dev_close", "esp_codec_dev_delete", "audio_codec_delete_data_if">>

\* the release calls made when esp_codec_dev_open fails
OpenFailCleanup == <<"esp_codec_dev_delete", "audio_codec_delete_data_if">>

\* variant: the open device is deleted without being closed
AllocFailCleanup_NoClose ==
    <<"esp_codec_dev_delete", "audio_codec_delete_data_if">>

\* the release calls made when heap_caps_malloc returns NULL
AllocFailCleanup ==
    <<"esp_codec_dev_close", "esp_codec_dev_delete", "audio_codec_delete_data_if">>

\* variant: the device is deleted before it is closed
Cleanup_DeleteBeforeClose ==
    <<"heap_caps_free", "esp_codec_dev_delete", "esp_codec_dev_close",
      "audio_codec_delete_data_if">>

\* the release calls after the loop
Cleanup ==
    <<"heap_caps_free", "esp_codec_dev_close", "esp_codec_dev_delete",
      "audio_codec_delete_data_if">>

\* last_buf_obj ? ... : ...  (an mp_obj_t is true when it is not MP_OBJ_NULL)
IsSet(obj) == obj # MP_OBJ_NULL

Raise(type, arg) ==
    /\ pc' = "raised"
    /\ raised' = [type |-> type, arg |-> arg]

----------------------------------------------------------------------------
(* The state after the arguments have been extracted (lines 24-34) *)

InitWith(n) ==
    /\ pc = "check_num"
    /\ n_chunks = n
    /\ \E a \in ChunkSamplesArgs : chunk_samples = ToSizeT(a)
    /\ channel_list \in ChannelLists
    /\ adc_channel_num \in ChannelNumArgs
    /\ channels = [k \in 0 .. MAX_CHANNELS - 1 |-> -1]
    /\ i = 0
    /\ adc_if = "unset"
    /\ dev = "unset"
    /\ open_ret = ESP_OK
    /\ buf_size = 0
    /\ audio_buffer = "unset"
    /\ mem = <<>>
    /\ written = 0
    /\ chunk = 0
    /\ ret = 0
    /\ global_min = 32767
    /\ global_max = -32768
    /\ last_buf_obj = mp_const_none
    /\ calls = <<>>
    /\ raised = NoError
    /\ result = NoResult

\* the program as built: const int N = 1
Init == InitWith(N)

\* the loop with its repeat count N as a parameter ("adjust as needed")
InitN == \E n \in 1 .. MaxN : InitWith(n)

----------------------------------------------------------------------------
(* Validation and the channel copy (lines 39-49) *)

\* lines 39-41
CheckChannelNum ==
    /\ pc = "check_num"
    /\ IF TooManyChannels(adc_channel_num)
       THEN Raise("ValueError", "Too many channels (max 10)")
       ELSE pc' = "check_len" /\ UNCHANGED raised
    /\ UNCHANGED <<n_chunks, chunk_samples, channel_list, adc_channel_num, channels, i, adc_if,
                   dev, open_ret, buf_size, audio_buffer, mem, written, chunk, ret,
                   global_min, global_max, last_buf_obj, calls, result>>

\* lines 42-44
CheckListLen ==
    /\ pc = "check_len"
    /\ IF ListTooShort(Len(channel_list), adc_channel_num)
       THEN Raise("ValueError", "adc_channel_list shorter than adc_channel_num")
       ELSE pc' = "copy" /\ UNCHANGED raised
    /\ UNCHANGED <<n_chunks, chunk_samples, channel_list, adc_channel_num, channels, i, adc_if,
                   dev, open_ret, buf_size, audio_buffer, mem, written, chunk, ret,
                   global_min, global_max, last_buf_obj, calls, result>>

\* lines 47-49, one iteration (or the exit) of the copy loop
CopyChannel ==
    /\ pc = "copy"
    /\ IF i < ToSizeT(adc_channel_num)
       THEN /\ channels' = [channels EXCEPT ![i] = Uint8(channel_list[i + 1])]
            /\ i' = i + 1
            /\ pc' = "copy"
       ELSE /\ pc' = "new_if"
            /\ UNCHANGED <<channels, i>>
    /\ UNCHANGED <<n_chunks, chunk_samples, channel_list, adc_channel_num, adc_if,
                   dev, open_ret, buf_size, audio_buffer, mem, written, chunk, ret,
                   global_min, global_max, last_buf_obj, calls, raised, result>>

----------------------------------------------------------------------------
(* Acquisition (lines 67-106) *)

\* lines 67-71
NewDataIf ==
    /\ pc = "new_if"
    /\ \E h \in {"NULL", "handle"} :
        /\ adc_if' = h
        /\ calls' = Append(calls, "audio_codec_new_adc_data")
        /\ IF h = "NULL"
           THEN Raise("RuntimeError", "Failed to init ADC interface")
           ELSE pc' = "new_dev" /\ UNCHANGED raised
    /\ UNCHANGED <<n_chunks, chunk_samples, channel_list, adc_channel_num, channels, i,
                   dev, open_ret, buf_size, audio_buffer, mem, written, chunk, ret,
                   global_min, global_max, last_buf_obj, result>>

\* lines 77-81
NewDev ==
    /\ pc = "new_dev"
    /\ \E h \in {"NULL", "handle"} :
        /\ dev' = h
        /\ IF h = "NULL"
           THEN /\ calls' = Append(calls, "esp_codec_dev_new") \o DevFailCleanup
                /\ Raise("RuntimeError", "Failed to create codec dev")
           ELSE /\ calls' = Append(calls, "esp_codec_dev_new")
                /\ pc' = "open"
                /\ UNCHANGED raised
    /\ UNCHANGED <<n_chunks, chunk_samples, channel_list, adc_channel_num, channels, i, adc_if,
                   open_ret, buf_size, audio_buffer, mem, written, chunk, ret,
                   global_min, global_max, last_buf_obj, result>>

\* lines 88-93
Open ==
    /\ pc = "open"
    /\ \E st \in {ESP_OK} \cup OpenErrors :
        /\ open_ret' = st
        /\ IF st # ESP_OK
           THEN /\ calls' = Append(calls, "esp_codec_dev_open") \o OpenFailCleanup
                /\ Raise("RuntimeError", st)
           ELSE /\ calls' = Append(calls, "esp_codec_dev_open")
                /\ pc' = "alloc"
                /\ UNCHANGED raised
    /\ UNCHANGED <<n_chunks, chunk_samples, channel_list, adc_channel_num, channels, i, adc_if,
                   dev, buf_size, audio_buffer, mem, written, chunk, ret,
                   global_min, global_max, last_buf_obj, result>>

\* variant: the result of heap_caps_malloc is not tested
Alloc_NoNullCheck ==
    /\ pc = "alloc"
    /\ buf_size' = BufSize(chunk_samples, adc_channel_num)
    /\ \/ /\ audio_buffer' = "NULL"
          /\ UNCHANGED mem
       \/ /\ audio_buffer' = "ptr"
          /\ \E g \in HeapBytes : mem' = [b \in 1 .. buf_size' |-> g]
    /\ calls' = Append(calls, "heap_caps_malloc")
    /\ pc' = "loop"
    /\ UNCHANGED <<n_chunks, chunk_samples, channel_list, adc_channel_num, channels, i,
                   adc_if, dev, open_ret, written, chunk, ret,
                   global_min, global_max, last_buf_obj, raised, result>>

\* lines 98-106; the bytes of a fresh allocation are whatever the heap held
Alloc ==
    /\ pc = "alloc"
    /\ buf_size' = BufSize(chunk_samples, adc_channel_num)
    /\ \/ /\ audio_buffer' = "NULL"
          /\ calls' = Append(calls, "heap_caps_malloc") \o AllocFailCleanup
          /\ Raise("OSError", ENOMEM)
          /\ UNCHANGED mem
       \/ /\ audio_buffer' = "ptr"
          /\ \E g \in HeapBytes : mem' = [b \in 1 .. buf_size' |-> g]
          /\ calls' = Append(calls, "heap_caps_malloc")
          /\ pc' = "loop"
          /\ UNCHANGED raised
    /\ UNCHANGED <<n_chunks, chunk_samples, channel_list, adc_channel_num, channels, i, adc_if,
                   dev, open_ret, written, chunk, ret,
                   global_min, global_max, last_buf_obj, result>>

----------------------------------------------------------------------------
(* What esp_codec_dev_read can do (the driver is outside the source) *)

\* a chunk of n samples: v0 everywhere but v1 at position p
Fill(n, p, v0, v1) == [k \in 1 .. n |-> IF k = p THEN v1 ELSE v0]

\* the chunks the driver can deliver into a buffer of bs bytes
Chunks(bs) ==
    LET n == bs \div SIZEOF_INT16
    IN  {Fill(n, p, v0, v1) : p \in {1, n}, v0 \in SampleValues, v1 \in SampleValues}

\* <<return value, bytes written>>: a negative status and nothing useful
\* written; 0 (ESP_CODEC_DEV_OK) or the byte count with the whole buffer
\* written; a positive byte count smaller than the buffer with only that
\* many bytes written
ReadOutcomes(bs) ==
    {<<e, 0>> : e \in ReadErrors}
        \cup {<<0, bs>>, <<bs, bs>>}
        \cup {<<k, k>> : k \in {c \in {bs - SIZEOF_INT16} : 0 < c /\ c < bs}}

\* memory after the driver wrote the first w bytes of `data` into m
WriteInto(m, data, w) == [b \in 1 .. Len(m) |-> IF b <= w THEN data[b] ELSE m[b]]

----------------------------------------------------------------------------
(* The acquisition loop (lines 120-151) *)

\* line 120: chunk < N
LoopTest ==
    /\ pc = "loop"
    /\ pc' = IF chunk < n_chunks THEN "wdt" ELSE "cleanup"
    /\ UNCHANGED <<n_chunks, chunk_samples, channel_list, adc_channel_num, channels, i, adc_if,
                   dev, open_ret, buf_size, audio_buffer, mem, written, chunk, ret,
                   global_min, global_max, last_buf_obj, calls, raised, result>>

\* variant: the watchdog is not reset before the read
WdtReset_Skipped ==
    /\ pc = "wdt"
    /\ pc' = "read"
    /\ UNCHANGED <<n_chunks, chunk_samples, channel_list, adc_channel_num, channels, i,
                   adc_if, dev, open_ret, buf_size, audio_buffer, mem, written, chunk,
                   ret, global_min, global_max, last_buf_obj, calls, raised, result>>

\* line 121
WdtReset ==
    /\ pc = "wdt"
    /\ calls' = Append(calls, "esp_task_wdt_reset")
    /\ pc' = "read"
    /\ UNCHANGED <<n_chunks, chunk_samples, channel_list, adc_channel_num, channels, i, adc_if,
                   dev, open_ret, buf_size, audio_buffer, mem, written, chunk, ret,
                   global_min, global_max, last_buf_obj, raised, result>>

\* lines 122-126
Read ==
    /\ pc = "read"
    /\ \E o \in ReadOutcomes(buf_size), data \in Chunks(buf_size) :
        /\ ret' = o[1]
        /\ written' = o[2]
        /\ mem' = WriteInto(mem, BytesOf(data), o[2])
    /\ calls' = Append(calls, "esp_codec_dev_read")
    /\ pc' = IF ReadFailed(ret') THEN "cleanup" ELSE "yield"
    /\ UNCHANGED <<n_chunks, chunk_samples, channel_list, adc_channel_num, channels, i, adc_if,
                   dev, open_ret, buf_size, audio_buffer, chunk,
                   global_min, global_max, last_buf_obj, raised, result>>

\* line 127
Yield ==
    /\ pc = "yield"
    /\ calls' = Append(calls, "vTaskDelay")
    /\ pc' = "scan"
    /\ UNCHANGED <<n_chunks, chunk_samples, channel_list, adc_channel_num, channels, i, adc_if,
                   dev, open_ret, buf_size, audio_buffer, mem, written, chunk, ret,
                   global_min, global_max, last_buf_obj, raised, result>>

\* lines 130-134.  Entries at or past the end of the allocation are read out
\* of bounds: the task faults, or the reads deliver whatever lies there
Scan ==
    /\ pc = "scan"
    /\ LET mm == ScanFrom(mem, chunk_samples, 0, <<global_min, global_max>>)
       IN  IF ScanOutOfBounds(mem, chunk_samples)
           THEN \/ /\ pc' = "crashed"
                   /\ UNCHANGED <<global_min, global_max>>
                \/ \E lo \in SampleValues, hi \in SampleValues :
                    /\ lo <= hi
                    /\ global_min' = Track(lo, mm)[1]
                    /\ global_max' = Track(hi, mm)[2]
                    /\ pc' = "snapshot"
           ELSE /\ global_min' = mm[1]
                /\ global_max' = mm[2]
                /\ pc' = "snapshot"
    /\ UNCHANGED <<n_chunks, chunk_samples, channel_list, adc_channel_num, channels, i, adc_if,
                   dev, open_ret, buf_size, audio_buffer, mem, written, chunk, ret,
                   last_buf_obj, calls, raised, result>>

\* lines 148-150 and the chunk++ of line 120; mp_obj_new_bytes copies
\* buf_size bytes or raises MemoryError when the object heap is exhausted
Snapshot ==
    /\ pc = "snapshot"
    /\ IF IsLastChunk(chunk, n_chunks)
       THEN /\ calls' = Append(calls, "mp_obj_new_bytes")
            /\ \/ /\ last_buf_obj' = Bytes(SubSeq(mem, 1, buf_size))
                  /\ chunk' = chunk + 1
                  /\ pc' = "loop"
                  /\ UNCHANGED raised
               \/ /\ Raise("MemoryError", buf_size)
                  /\ UNCHANGED <<last_buf_obj, chunk>>
       ELSE /\ chunk' = chunk + 1
            /\ pc' = "loop"
            /\ UNCHANGED <<last_buf_obj, calls, raised>>
    /\ UNCHANGED <<n_chunks, chunk_samples, channel_list, adc_channel_num, channels, i, adc_if,
                   dev, open_ret, buf_size, audio_buffer, mem, written, ret,
                   global_min, global_max, result>>

----------------------------------------------------------------------------
(* Teardown and return (lines 162-169) *)

\* lines 162-165
DoCleanup ==
    /\ pc = "cleanup"
    /\ calls' = calls \o Cleanup
    /\ pc' = "return"
    /\ UNCHANGED <<n_chunks, chunk_samples, channel_list, adc_channel_num, channels, i, adc_if,
                   dev, open_ret, buf_size, audio_buffer, mem, written, chunk, ret,
                   global_min, global_max, last_buf_obj, raised, result>>

\* line 169
Return ==
    /\ pc = "return"
    /\ IF IsSet(last_buf_obj)
       THEN /\ result' = last_buf_obj
            /\ UNCHANGED calls
       ELSE /\ result' = Bytes(<<>>)
            /\ calls' = Append(calls, "mp_obj_new_bytes")
    /\ pc' = "returned"
    /\ UNCHANGED <<n_chunks, chunk_samples, channel_list, adc_channel_num, channels, i, adc_if,
                   dev, open_ret, buf_size, audio_buffer, mem, written, chunk, ret,
                   global_min, global_max, last_buf_obj, raised>>

Next ==
    \/ CheckChannelNum
    \/ CheckListLen
    \/ CopyChannel
    \/ NewDataIf
    \/ NewDev
    \/ Open
    \/ Alloc
    \/ LoopTest
    \/ WdtReset
    \/ Read
    \/ Yield
    \/ Scan
    \/ Snapshot
    \/ DoCleanup
    \/ Return

Spec == Init /\ [][Next]_vars

SpecN == InitN /\ [][Next]_vars

----------------------------------------------------------------------------
(* Vocabulary of the properties *)

Count(c) == Cardinality({k \in DOMAIN calls : calls[k] = c})

IsRelease(c) ==
    c \in {"heap_caps_free", "esp_codec_dev_close", "esp_codec_dev_delete",
           "audio_codec_delete_data_if"}

\* the release calls made so far, in order
Releases == SelectSeq(calls, IsRelease)

\* position of a release call in the teardown order of the specification
Rank(c) ==
    CASE c = "heap_caps_free" -> 1
      [] c = "esp_codec_dev_close" -> 2
      [] c = "esp_codec_dev_delete" -> 3
      [] c = "audio_codec_delete_data_if" -> 4

\* index of the first occurrence of c in calls (0 when absent)
FirstIndex(c) ==
    IF Count(c) = 0 THEN 0
    ELSE CHOOSE k \in DOMAIN calls :
            calls[k] = c /\ \A j \in DOMAIN calls : calls[j] = c => k <= j

Ended == pc \in {"raised", "returned"}

IfCreated == adc_if = "handle"
DevCreated == dev = "handle"
DevOpened == Count("esp_codec_dev_open") = 1 /\ open_ret = ESP_OK
BufAllocated == audio_buffer = "ptr"

\* the single read was issued and returned a non-negative / a negative status
ReadSucceeded == Count("esp_codec_dev_read") = 1 /\ ret >= 0
ReadNegative == Count("esp_codec_dev_read") = 1 /\ ret < 0

\* the request is one the data model of the specification describes:
\* a positive chunk_samples, adc_channel_num in 1..10, a list long enough
RequestInDataModel ==
    /\ chunk_samples \in 1 .. (SIZE_MOD \div 2 - 1)
    /\ adc_channel_num \in 1 .. MAX_CHANNELS
    /\ Len(channel_list) >= adc_channel_num

\* the 16-bit samples held by a byte sequence
SamplesOf(data) == [k \in 1 .. Len(data) \div 2 |-> Sample(data, k - 1)]

----------------------------------------------------------------------------
(* Properties *)

\* C1: whenever the call has ended (returned or raised) after the data
\* interface was created, nothing is still held: the buffer is freed if it was
\* allocated, the device is closed if it was opened and deleted if it was
\* created, and the data interface is deleted.  Stated for the requests of
\* the data model; it fails already there.
C1_NoResourceHeldAtExit ==
    (RequestInDataModel /\ Ended /\ IfCreated) =>
        /\ BufAllocated => Count("heap_caps_free") = 1
        /\ DevOpened => Count("esp_codec_dev_close") = 1
        /\ DevCreated => Count("esp_codec_dev_delete") = 1
        /\ Count("audio_codec_delete_data_if") = 1

\* C2: the release calls made so far are always in the order free, close,
\* device delete, data-interface delete; an opened device is closed before it
\* is deleted; a created device is deleted before its data interface; and
\* after the loop the release sequence is the full one, whether the loop ended
\* Done or Aborted.
C2_ReleaseOrder ==
    /\ \A a, b \in DOMAIN Releases :
          a < b => Rank(Releases[a]) < Rank(Releases[b])
    /\ (DevOpened /\ Count("esp_codec_dev_delete") > 0) =>
          /\ Count("esp_codec_dev_close") > 0
          /\ FirstIndex("esp_codec_dev_close") < FirstIndex("esp_codec_dev_delete")
    /\ (DevCreated /\ Count("audio_codec_delete_data_if") > 0) =>
          /\ Count("esp_codec_dev_delete") > 0
          /\ FirstIndex("esp_codec_dev_delete") < FirstIndex("audio_codec_delete_data_if")
    /\ pc \in {"return", "returned"} =>
          Releases = <<"heap_caps_free", "esp_codec_dev_close", "esp_codec_dev_delete",
                       "audio_codec_delete_data_if">>

\* the loop was aborted by a failed read and the call returned after teardown
C2_Witness ==
    /\ pc = "returned"
    /\ ReadNegative
    /\ Len(Releases) = 4

\* C3: when esp_codec_dev_open returned a non-zero status the call has ended
\* with a RuntimeError carrying that status, the only release calls are one
\* device delete followed by one data-interface delete, and there was no
\* close, no allocation, no free, no read and no watchdog reset.
C3_OpenFailure ==
    (open_ret # ESP_OK) =>
        /\ pc = "raised"
        /\ raised = [type |-> "RuntimeError", arg |-> open_ret]
        /\ Releases = <<"esp_codec_dev_delete", "audio_codec_delete_data_if">>
        /\ Count("esp_codec_dev_close") = 0
        /\ Count("heap_caps_malloc") = 0
        /\ Count("heap_caps_free") = 0
        /\ Count("esp_codec_dev_read") = 0
        /\ Count("esp_task_wdt_reset") = 0

C3_Witness ==
    /\ pc = "raised"
    /\ open_ret # ESP_OK
    /\ Count("esp_codec_dev_open") = 1
    /\ Count("esp_codec_dev_delete") = 1

\* C4: when heap_caps_malloc returned NULL the call has ended with
\* OSError(ENOMEM), the release calls are close, device delete, data-interface
\* delete, and there was no read and no free.
C4_AllocFailure ==
    (audio_buffer = "NULL") =>
        /\ pc = "raised"
        /\ raised = [type |-> "OSError", arg |-> ENOMEM]
        /\ Releases = <<"esp_codec_dev_close", "esp_codec_dev_delete",
                        "audio_codec_delete_data_if">>
        /\ Count("esp_codec_dev_read") = 0
        /\ Count("heap_caps_free") = 0

C4_Witness ==
    /\ pc = "raised"
    /\ audio_buffer = "NULL"
    /\ Count("heap_caps_malloc") = 1
    /\ Count("esp_codec_dev_close") = 1

\* C5: when the single read returned a negative status no error is raised,
\* and once the call has returned the value is the empty byte sequence and
\* buffer and device have been fully released.  Stated for the requests of
\* the data model; it fails already there.
C5_FailedReadReturnsEmptyBytes ==
    (RequestInDataModel /\ ReadNegative) =>
        /\ raised = NoError
        /\ pc = "returned" =>
              /\ result = Bytes(<<>>)
              /\ Releases = <<"heap_caps_free", "esp_codec_dev_close",
                              "esp_codec_dev_delete", "audio_codec_delete_data_if">>

\* C6: when the single read succeeded and the call has returned, the value is
\* a byte sequence of length chunk_samples * adc_channel_num * 2 whose content
\* is the buffer as that read left it.  Stated for the requests of the data
\* model and the runs whose read wrote the whole buffer and whose scan stayed
\* inside it; it fails already there.
C6_ReturnedLengthAndContent ==
    (RequestInDataModel /\ pc = "returned" /\ ReadSucceeded /\ written = buf_size
        /\ ~ScanOutOfBounds(mem, chunk_samples)) =>
        /\ result.kind = "bytes"
        /\ Len(result.data) = chunk_samples * adc_channel_num * 2
        /\ result.data = mem

\* C7: when the single read succeeded, for adc_channel_num in 1..10, every
\* sample s of the returned chunk satisfies global_min <= s <= global_max.
\* Stated for the requests of the data model and the reads that wrote the
\* whole buffer; it fails already there.
C7_MinMaxCoversReturnedChunk ==
    (RequestInDataModel /\ pc = "returned" /\ ReadSucceeded /\ written = buf_size
        /\ adc_channel_num \in 1 .. MAX_CHANNELS /\ result.kind = "bytes") =>
        \A k \in DOMAIN SamplesOf(result.data) :
            /\ global_min <= SamplesOf(result.data)[k]
            /\ SamplesOf(result.data)[k] <= global_max

\* C8: a non-empty result is returned only when the read wrote every one of
\* the buf_size bytes of the buffer.  Stated for the requests of the data
\* model; it fails already there.
C8_OnlyFullyWrittenBufferReturned ==
    (RequestInDataModel /\ pc = "returned" /\ result.kind = "bytes"
        /\ Len(result.data) > 0) =>
        written = buf_size

\* C9: each release operation is called at most once, and only on a resource
\* that was acquired.
C9_ReleasedAtMostOnce ==
    /\ Count("heap_caps_free") <= 1
    /\ Count("esp_codec_dev_close") <= 1
    /\ Count("esp_codec_dev_delete") <= 1
    /\ Count("audio_codec_delete_data_if") <= 1
    /\ Count("heap_caps_free") > 0 => BufAllocated
    /\ Count("esp_codec_dev_close") > 0 => DevOpened
    /\ Count("esp_codec_dev_delete") > 0 => DevCreated
    /\ Count("audio_codec_delete_data_if") > 0 => IfCreated

\* every resource was acquired and each was released
C9_Witness ==
    /\ pc = "returned"
    /\ ReadSucceeded
    /\ Count("heap_caps_free") = 1
    /\ Count("esp_codec_dev_close") = 1
    /\ Count("esp_codec_dev_delete") = 1
    /\ Count("audio_codec_delete_data_if") = 1

\* C10: with adc_channel_num > 10 the call never gets past the first check:
\* it ends with ValueError("Too many channels (max 10)") and no allocator or
\* driver call has been made.
C10_TooManyChannelsRejectedFirst ==
    (adc_channel_num > 10) =>
        /\ calls = <<>>
        /\ pc \in {"check_num", "raised"}
        /\ pc = "raised" =>
              raised = [type |-> "ValueError", arg |-> "Too many channels (max 10)"]

C10_Witness ==
    /\ pc = "raised"
    /\ adc_channel_num > 10
    /\ raised.type = "ValueError"


\* C11: with a channel list shorter than adc_channel_num the call never gets
\* past validation: it ends with a ValueError and no allocator or driver call
\* has been made.
C11_ShortListRejectedFirst ==
    (Len(channel_list) < adc_channel_num) =>
        /\ calls = <<>>
        /\ pc \in {"check_num", "check_len", "raised"}
        /\ pc = "raised" => raised.type = "ValueError"

\* a list of fewer than adc_channel_num <= 10 items was rejected by the
\* second check
C11_Witness ==
    /\ pc = "raised"
    /\ Len(channel_list) < adc_channel_num
    /\ adc_channel_num <= MAX_CHANNELS
    /\ raised = [type |-> "ValueError",
                 arg |-> "adc_channel_list shorter than adc_channel_num"]

\* C12: when the data interface cannot be created the call ends with a
\* RuntimeError, nothing is released and no device create, open, allocation or
\* read happens; when the device cannot be created the call ends with a
\* RuntimeError, the data interface is deleted exactly once and no device
\* open, close or delete and no allocation or read happens.
C12_UnwindAtFailedStep ==
    /\ (adc_if = "NULL") =>
          /\ pc = "raised"
          /\ raised.type = "RuntimeError"
          /\ calls = <<"audio_codec_new_adc_data">>
    /\ (dev = "NULL") =>
          /\ pc = "raised"
          /\ raised.type = "RuntimeError"
          /\ calls = <<"audio_codec_new_adc_data", "esp_codec_dev_new",
                       "audio_codec_delete_data_if">>

\* the device could not be created and the data interface was deleted
C12_Witness ==
    /\ pc = "raised"
    /\ dev = "NULL"
    /\ adc_if = "handle"
    /\ Count("audio_codec_delete_data_if") = 1


\* a read has returned a negative status (ret is the status of the last read)
Aborted == Count("esp_codec_dev_read") >= 1 /\ ret < 0

\* C13: for any repeat count, every read in the call log is immediately
\* preceded by a watchdog reset, and the number of watchdog resets equals the
\* number of reads attempted (the reset of the iteration under way counted
\* with the read it is about to make).
C13_WatchdogBeforeEveryRead ==
    /\ \A k \in DOMAIN calls :
          calls[k] = "esp_codec_dev_read" =>
              k > 1 /\ calls[k - 1] = "esp_task_wdt_reset"
    /\ Count("esp_task_wdt_reset") =
          Count("esp_codec_dev_read") + (IF pc = "read" THEN 1 ELSE 0)

\* two iterations ran, each with its reset and its read
C13_Witness ==
    /\ pc = "returned"
    /\ n_chunks = 2
    /\ Count("esp_codec_dev_read") = 2
    /\ Count("esp_task_wdt_reset") = 2

\* C14: for any repeat count, once a read has returned a negative status the
\* only calls that follow are the release calls of the teardown: no read,
\* watchdog reset, yield or snapshot; global_min, global_max and last_buf_obj
\* keep the values they had before the failed read; no error is raised; and
\* the call is at the teardown or past it.
C14_AbortStopsTheLoop ==
    [][ Aborted' =>
          /\ global_min' = global_min
          /\ global_max' = global_max
          /\ last_buf_obj' = last_buf_obj
          /\ raised' = NoError
          /\ pc' \in {"cleanup", "return", "returned"}
          /\ \/ calls' = calls
             \/ calls' = Append(calls, "esp_codec_dev_read") /\ ~Aborted
             \/ Aborted /\ calls' = calls \o <<"heap_caps_free", "esp_codec_dev_close",
                                               "esp_codec_dev_delete",
                                               "audio_codec_delete_data_if">>
      ]_vars

\* the first chunk was read and scanned, the second read failed, and the call
\* returned after teardown
C14_Witness ==
    /\ pc = "returned"
    /\ Aborted
    /\ Count("esp_codec_dev_read") = 2
    /\ global_min <= global_max
    /\ Count("heap_caps_free") = 1


\* at least one read returned a non-negative status (the yield of line 127
\* follows exactly those reads)
SomeReadSucceeded == Count("vTaskDelay") >= 1

\* C15: for any repeat count, once the call has returned, the result holds
\* the bytes of the last successfully read chunk whenever at least one read
\* succeeded, and it is the empty byte sequence only if no chunk completed.
\* Stated for the requests of the data model; it fails already there.
C15_LastGoodChunkReturned ==
    (RequestInDataModel /\ pc = "returned") =>
        /\ SomeReadSucceeded => result = Bytes(mem)
        /\ (result = Bytes(<<>>) /\ buf_size > 0) => ~SomeReadSucceeded

\* while the loop is running: positions from the loop test to the snapshot
InLoop == pc \in {"loop", "wdt", "read", "yield", "scan", "snapshot"}

\* C16: while the loop is running (a read about to be issued, the scan and
\* the snapshot about to touch the buffer) the data interface exists, the
\* device is open, the buffer is allocated and nothing has been released; and
\* no read in the call log comes after a release call.
C16_ReadOnlyWhileResourcesLive ==
    /\ InLoop =>
          /\ IfCreated
          /\ DevCreated
          /\ DevOpened
          /\ BufAllocated
          /\ Releases = <<>>
    /\ \A k \in DOMAIN calls :
          calls[k] = "esp_codec_dev_read" =>
              /\ \A j \in 1 .. k : ~IsRelease(calls[j])
              /\ \E j \in 1 .. k : calls[j] = "esp_codec_dev_open"
              /\ \E j \in 1 .. k : calls[j] = "heap_caps_malloc"
              /\ BufAllocated /\ DevOpened /\ IfCreated

\* the second read of a two-chunk capture is about to be issued
C16_Witness ==
    /\ pc = "read"
    /\ chunk = 1
    /\ Count("esp_codec_dev_read") = 1
    /\ BufAllocated


\* C17: for every accepted request, once the buffer is allocated it holds
\* chunk_samples * adc_channel_num 16-bit samples and every index the scan
\* reads (0 .. chunk_samples-1) lies inside it.  Stated for the requests of
\* the data model; it fails already there.
C17_BufferHoldsAllScannedSamples ==
    (RequestInDataModel /\ BufAllocated) =>
        /\ NumSamples(mem) = chunk_samples * adc_channel_num
        /\ ~ScanOutOfBounds(mem, chunk_samples)

\* validation is over and it has let the request through
ValidationPassed ==
    /\ pc \notin {"check_num", "check_len"}
    /\ ~(pc = "raised" /\ raised.type = "ValueError")

\* C18: an entry of channels[10] is written only after validation has passed,
\* and only at an index below adc_channel_num <= 10; while the copy runs the
\* next index written is inside the array; a negative adc_channel_num is
\* rejected by validation, with no array write and no resource acquisition.
C18_ChannelWritesInBounds ==
    /\ \A k \in DOMAIN channels :
          channels[k] # -1 =>
              /\ ValidationPassed
              /\ 0 <= k /\ k < adc_channel_num
              /\ adc_channel_num <= MAX_CHANNELS
    /\ pc = "copy" =>
          /\ 0 <= i /\ i <= adc_channel_num
          /\ adc_channel_num <= MAX_CHANNELS
          /\ ToSizeT(adc_channel_num) = adc_channel_num
    /\ adc_channel_num < 0 =>
          /\ ~ValidationPassed
          /\ calls = <<>>
          /\ \A k \in DOMAIN channels : channels[k] = -1

\* all ten entries were written, the last one narrowed from 259 to 3
C18_Witness ==
    /\ pc = "new_if"
    /\ adc_channel_num = MAX_CHANNELS
    /\ channels[MAX_CHANNELS - 1] = 3

\* C19: the call makes at most N reads, and whenever it has ended after
\* entering the loop, the loop reached Done (N reads succeeded) or Aborted (a
\* read failed) and the teardown ran exactly once.  Stated for the requests
\* of the data model; it fails already there.
C19_LoopEndsAndTeardownRunsOnce ==
    RequestInDataModel =>
        /\ Count("esp_codec_dev_read") <= n_chunks
        /\ (Ended /\ Count("esp_task_wdt_reset") >= 1) =>
              /\ Count("vTaskDelay") = n_chunks \/ Aborted
              /\ Releases = <<"heap_caps_free", "esp_codec_dev_close",
                              "esp_codec_dev_delete", "audio_codec_delete_data_if">>

\* scans of lines 130-134 that have run to completion
ScansDone == Count("vTaskDelay") - (IF pc \in {"scan", "crashed"} THEN 1 ELSE 0)

\* C20: global_min is 32767 and global_max is -32768 until the first scan; no
\* step ever increases global_min or decreases global_max; and once a chunk
\* with chunk_samples >= 1 has been scanned, global_min <= global_max.
C20_MinMaxMonotone ==
    /\ [](ScansDone = 0 => (global_min = 32767 /\ global_max = -32768))
    /\ [][global_min' <= global_min /\ global_max' >= global_max]_vars
    /\ []((ScansDone >= 1 /\ chunk_samples >= 1) => global_min <= global_max)

\* two chunks were scanned and the statistics span more than one value
C20_Witness ==
    /\ pc = "returned"
    /\ ScansDone = 2
    /\ global_min < global_max
    /\ chunk_samples >= 1

====
